---------------------------- MODULE Spec2Model ----------------------------
(***************************************************************************)
(* A model of paulhankin/cpoker: the card encoding and the slow ranker,    *)
(* the hash table behind Eval, the play engine, the 2-4 comparison and     *)
(* the sampled / rollout scorers.                                          *)
(*                                                                         *)
(* Go slices and arrays are 0-indexed; the sequences below are 1-indexed,  *)
(* so c[i] of the source is c[i+1] here.  Index tuples (fIdx, bIdx, the    *)
(* table builder's indexes) keep the source's VALUES and only shift their  *)
(* positions.                                                              *)
(***************************************************************************)
EXTENDS Integers, Sequences, FiniteSets, TLC

VARIABLES
    pc,          \* which operation ran last / the position of the running one
    call,        \* the arguments of the last call
    ret,         \* what the last call returned
    allScores,   \* init's allScores (the distinct slow keys, ascending) as init left it
    evalTable,   \* the 32768-entry hash table of (key, val)
    cards,       \* Play: c, the 13 cards dealt
    he,          \* Play: the evaluator
    evals,       \* Play: what Eval3 / Eval5 return for the 3- and 5-card hands of c
    fIdx,        \* Play: the index tuple of the front
    maxima,      \* Play: the retained rank triples
    best,        \* Play: the best hand so far
    bestEV,      \* Play: its score
    stats,       \* Play: EvalStats
    unfiltered,  \* best and bestEV of the same loop without the dominance filter,
                 \* and top: the largest score of a partition that passed the checks
    firstBest,   \* Play: the first scored partition of the largest score so far
    bIdx,        \* Play: the index tuple of the back
    visited,     \* the fronts visited, the backs visited for the current front,
                 \* and how many of each and of partitions
    re,          \* a RolloutEvaluator
    run          \* a running rollout: the channel, the workers, the wait group

vars == <<pc, call, ret, allScores, evalTable, cards, he, evals, fIdx, maxima,
          best, bestEV, stats, unfiltered, firstBest, bIdx, visited, re, run>>

---------------------------------------------------------------------------
(* Small helpers for Go's fixed-width integer operations.                  *)

RECURSIVE Pow2(_)
Pow2(n) == IF n = 0 THEN 1 ELSE 2 * Pow2(n - 1)

\* Bitwise AND / XOR of two naturals, four bits at a time.
Bit(a, k) == (a \div Pow2(k)) % 2

NibAnd ==
    [a \in 0..15 |-> [b \in 0..15 |->
        Bit(a, 0) * Bit(b, 0) + 2 * Bit(a, 1) * Bit(b, 1)
            + 4 * Bit(a, 2) * Bit(b, 2) + 8 * Bit(a, 3) * Bit(b, 3)]]

NibXor ==
    [a \in 0..15 |-> [b \in 0..15 |->
        ((Bit(a, 0) + Bit(b, 0)) % 2) + 2 * ((Bit(a, 1) + Bit(b, 1)) % 2)
            + 4 * ((Bit(a, 2) + Bit(b, 2)) % 2) + 8 * ((Bit(a, 3) + Bit(b, 3)) % 2)]]

RECURSIVE BitAnd(_, _)
BitAnd(a, b) ==
    IF a = 0 \/ b = 0 THEN 0
    ELSE NibAnd[a % 16][b % 16] + 16 * BitAnd(a \div 16, b \div 16)

RECURSIVE BitXor(_, _)
BitXor(a, b) ==
    IF a = 0 THEN b
    ELSE IF b = 0 THEN a
    ELSE NibXor[a % 16][b % 16] + 16 * BitXor(a \div 16, b \div 16)

---------------------------------------------------------------------------
(* Cards: eval.go, package poker.                                          *)

Club == 0
Diamond == 1
Heart == 2
Spade == 3

primes == <<2, 3, 5, 7, 11, 13, 17, 23, 29, 31, 37, 41, 43>>

\* Card.Suit: the top bits hold one bit per suit; anything else is fatal.
CardSuit(c) ==
    CASE c \div 64 = 1 -> Club
      [] c \div 64 = 2 -> Diamond
      [] c \div 64 = 4 -> Heart
      [] c \div 64 = 8 -> Spade
      [] OTHER -> -1

\* Card.Rank: the rank whose prime is in the low 6 bits, 0 if there is none.
CardRank(c) ==
    LET r == c % 64
    IN  IF \E pr \in 1..13 : primes[pr] = r
        THEN CHOOSE pr \in 1..13 : primes[pr] = r
        ELSE 0

\* MakeCard.  s is a uint8, r an int.  The guard rejects s > 3, r = 0 and
\* r > 13; a negative r passes the guard and primes[r-1] is then indexed out
\* of range, which is a run-time panic, not an error return.
MakeCard(s, r) ==
    IF s > 3 \/ r = 0 \/ r > 13
    THEN [card |-> 0, err |-> "illegal card"]
    ELSE IF r - 1 < 0
    THEN [card |-> 0, err |-> "panic"]
    ELSE [card |-> Pow2(6 + s) + primes[r], err |-> "nil"]

\* The card MakeCard builds for an in-range suit and rank.
Card(s, r) == MakeCard(s, r).card

\* Cards: the full deck, by suit and then rank (index 1..52 here).
Cards == [i \in 1..52 |-> Card((i - 1) \div 13, ((i - 1) % 13) + 1)]

---------------------------------------------------------------------------
(* The slow ranker: eval.go, evalScore / find / isFlush / evalSlow.        *)

\* evalScore: pack the category and up to five kickers, base 16.
evalScore(v, c) ==
    LET K(i) == IF i <= Len(c) THEN c[i] ELSE 0
    IN  ((((v * 16 + K(1)) * 16 + K(2)) * 16 + K(3)) * 16 + K(4)) * 16 + K(5)

\* find: the n-th highest rank with multiplicity k, ace high; 0 if none.
RECURSIVE findFrom(_, _, _, _)
findFrom(i, k, r, n) ==
    IF i >= 13 THEN 0
    ELSE LET rank == IF i = 0 THEN 1 ELSE 14 - i
         IN  IF r[rank] = k
             THEN IF n = 0 THEN 14 - i ELSE findFrom(i + 1, k, r, n - 1)
             ELSE findFrom(i + 1, k, r, n)

find(k, r, n) == findFrom(0, k, r, n)
find1(r, n) == find(1, r, n)
find2(r, n) == find(2, r, n)

isFlush(c) ==
    /\ Len(c) = 5
    /\ \A i \in 1..Len(c) : CardSuit(c[i]) = CardSuit(c[1])

\* Str8Allowed without the exclusion of wrap-around windows.
Str8AllowedAll(idx) == TRUE

\* The wrap-around exclusion of the straight window: a full window at idx
\* counts unless it is headed by 2, 3 or 4.
Str8Allowed(idx) == idx <= 1 \/ idx >= 5

\* One pass of the inner loop "for i := 0; i < 5; i++" for a card of rank rk.
RECURSIVE Str8Step(_, _, _)
Str8Step(st, rk, i) ==
    IF i >= 5 THEN st
    ELSE LET idx == (rk + i) % 13
             old == st.str8s[idx]
             new == IF (old \div Pow2(i)) % 2 = 1 THEN old ELSE old + Pow2(i)
             top == IF new = 31 /\ Str8Allowed(idx)
                    THEN ((idx + 12) % 13) + 1
                    ELSE st.str8top
         IN  Str8Step([st EXCEPT !.str8s[idx] = new, !.str8top = top], rk, i + 1)

\* The body of "for _, ci := range c": count the rank, move it between the
\* dupes buckets, and mark the straight windows it belongs to.
SlowCard(st, ci) ==
    LET rk == CardRank(ci)
        n  == st.ranks[rk] + 1
        st1 == [st EXCEPT !.ranks[rk] = n,
                          !.dupes[n] = @ + 1,
                          !.dupes[n - 1] = @ - 1]
    IN  Str8Step(st1, rk, 0)

RECURSIVE SlowScan(_, _, _)
SlowScan(st, c, i) ==
    IF i > Len(c) THEN st ELSE SlowScan(SlowCard(st, c[i]), c, i + 1)

SlowInit ==
    [ranks |-> [r \in 0..13 |-> 0],
     dupes |-> [k \in 0..5 |-> 0],
     str8s |-> [i \in 0..12 |-> 0],
     str8top |-> 0]

\* Str8Score without the ace-high adjustment.
Str8ScoreRaw(str8top) == str8top

\* The score a straight headed by str8top gets: 5 for the wheel, 14 for ace high.
Str8Score(str8top) == ((str8top + 11) % 13) + 2

\* evalSlow(c, replace): [cat, rank, err].  rank is eval.rank, cat the first
\* argument given to evalScore; the description string is not modelled.
evalSlow(c, replace) ==
    LET flush == isFlush(c)
        st == SlowScan(SlowInit, c, 1)
        ranks == st.ranks
        dupes == st.dupes
        str8top == st.str8top
        Ok(v, ks) == [cat |-> v, rank |-> evalScore(v, ks), err |-> FALSE]
    IN  IF ~flush /\ str8top = 0 /\ dupes[1] = Len(c)
        THEN Ok(0, <<find1(ranks, 0), find1(ranks, 1), find1(ranks, 2),
                     find1(ranks, 3), find1(ranks, 4)>>)
        ELSE IF dupes[2] = 1 /\ dupes[3] = 0
        THEN Ok(1, <<find2(ranks, 0), find1(ranks, 0), find1(ranks, 1),
                     find1(ranks, 2)>>)
        ELSE IF dupes[2] = 2
        THEN Ok(2, <<find2(ranks, 0), find2(ranks, 1), find1(ranks, 0)>>)
        ELSE IF dupes[3] = 1 /\ dupes[2] = 0
        THEN IF replace
             THEN Ok(3, <<find(3, ranks, 0), find1(ranks, 0), find1(ranks, 1)>>)
             ELSE Ok(3, <<find(3, ranks, 0)>>)
        ELSE IF str8top # 0 /\ ~flush
        THEN Ok(4, <<Str8Score(str8top)>>)
        ELSE IF flush /\ str8top = 0
        THEN Ok(5, <<find1(ranks, 0), find1(ranks, 1), find1(ranks, 2),
                     find1(ranks, 3), find1(ranks, 4)>>)
        ELSE IF dupes[2] = 1 /\ dupes[3] = 1
        THEN IF replace
             THEN Ok(6, <<find(3, ranks, 0), find2(ranks, 0)>>)
             ELSE Ok(6, <<find(3, ranks, 0)>>)
        ELSE IF dupes[4] = 1
        THEN IF replace
             THEN Ok(7, <<find(4, ranks, 0), find1(ranks, 0)>>)
             ELSE Ok(7, <<find(4, ranks, 0)>>)
        ELSE IF str8top # 0 /\ flush
        THEN Ok(8, <<Str8Score(str8top)>>)
        ELSE IF dupes[5] = 1
        THEN Ok(9, <<find(5, ranks, 0)>>)
        ELSE [cat |-> -1, rank |-> 0, err |-> TRUE]

---------------------------------------------------------------------------
(* The hash table: eval.go, index / hash / nextIdx / init.                 *)

ScoreMax == 6785
evalMask == 32767

\* Bounds of the model: how many slots a probe sequence may visit before the
\* model calls the loop non-terminating.
ProbeLimit == 8

\* index: the product of the cards' primes as an int32, negated for a 5-card
\* flush.  A factor c & 0x3f is at most 63 and a hand has at most five cards,
\* so the product stays below 2^31 and int32 never wraps here.  "suits" starts as 0x3c0 and is ANDed with every card; only the four
\* suit bits (c >> 6) survive the final mask, so they are what is ANDed here.
RECURSIVE indexProd(_, _)
indexProd(c, i) ==
    IF i > Len(c) THEN 1 ELSE (c[i] % 64) * indexProd(c, i + 1)

RECURSIVE suitAnd(_, _)
suitAnd(c, i) ==
    IF i > Len(c) THEN 15 ELSE BitAnd((c[i] \div 64) % 16, suitAnd(c, i + 1))

index(c) ==
    LET r == indexProd(c, 1)
    IN  IF Len(c) = 5 /\ suitAnd(c, 1) # 0 THEN -r ELSE r

\* hash: (k >> 4) ^ (k << 6) on int32; >> is arithmetic, << wraps.  The 32
\* bits are handled as two 16-bit halves (two's complement): Hi16/Lo16 split
\* a signed value, FromHalves puts a signed value together again.
Lo16(k) == k % 65536
Hi16(k) == (k \div 65536) % 65536
FromHalves(hi, lo) ==
    IF hi >= 32768 THEN (hi - 65536) * 65536 + lo ELSE hi * 65536 + lo

hash(k) ==
    LET sr == k \div 16
        slLo == (Lo16(k) * 64) % 65536
        slHi == (Hi16(k) * 64 + (Lo16(k) * 64) \div 65536) % 65536
    IN  FromHalves(BitXor(Hi16(sr), slHi), BitXor(Lo16(sr), slLo))

\* The slot of a probe value: k & evalMask (two's complement, so k mod 2^15).
Slot(k) == k % (evalMask + 1)

\* evalTable is a zero-initialised array of 32768 entries, indexed 0..32767.
\* A table is a function from slots to entries; a slot outside its domain
\* holds the zero entry, so the state keeps only the slots that were written.
ZeroEntry == [key |-> 0, val |-> 0]
Entry(table, slot) == IF slot \in DOMAIN table THEN table[slot] ELSE ZeroEntry

\* evalTable[slot] = e.
TablePut(table, slot, e) == [table EXCEPT ![slot] = e]

\* Eval's loop "for { if evalTable[k&evalMask].key == key {return val}; k = hash(k) }":
\* found = FALSE stands for a loop that has not returned after ProbeLimit slots.
RECURSIVE Probe(_, _, _, _)
Probe(table, key, k, fuel) ==
    IF fuel = 0 THEN [found |-> FALSE, val |-> -1, slot |-> -1]
    ELSE IF Entry(table, Slot(k)).key = key
    THEN [found |-> TRUE, val |-> Entry(table, Slot(k)).val, slot |-> Slot(k)]
    ELSE Probe(table, key, hash(k), fuel - 1)

Lookup(table, key) == Probe(table, key, key, ProbeLimit)

\* Eval, Eval3 and Eval5 compute the same key (Eval3/Eval5 inline the product
\* and the flush test) and run the same probe loop.
Eval(table, c) == Lookup(table, index(c))

Eval3(table, c) == Lookup(table, (c[1] % 64) * (c[2] % 64) * (c[3] % 64))

Eval5(table, c) ==
    LET p == (c[1] % 64) * (c[2] % 64) * (c[3] % 64) * (c[4] % 64) * (c[5] % 64)
        s == BitAnd(BitAnd(BitAnd(BitAnd((c[1] \div 64) % 16, (c[2] \div 64) % 16),
                                  (c[3] \div 64) % 16), (c[4] \div 64) % 16),
                    (c[5] \div 64) % 16)
    IN  Lookup(table, IF s # 0 THEN -p ELSE p)

\* nextIdx(ix, k, dupes): advance the index tuple; [ix, more].
RECURSIVE nextIdxFrom(_, _, _, _)
nextIdxFrom(ix, i, k, dupes) ==
    LET ix1 == [ix EXCEPT ![i + 1] = @ + 1]
    IN  IF i + 1 = Len(ix) \/ ix1[i + 1] # ix1[i + 2] + dupes
        THEN [ix |-> ix1, more |-> ix1[i + 1] < k]
        ELSE nextIdxFrom([ix1 EXCEPT ![i + 1] = i * (1 - dupes)], i + 1, k, dupes)

nextIdx(ix, k, dupes) == nextIdxFrom(ix, 0, k, dupes)

\* The suits the non-flush pass gives the five positions.
buildSuits == <<Club, Diamond, Heart, Spade, Club>>

\* The hand init builds from an index tuple.
BuildHand(ix, flush) ==
    [i \in 1..Len(ix) |->
        Card(IF flush = 0 THEN buildSuits[i] ELSE Spade, ix[i] + 1)]

\* The sixteen sequences p[0], ..., p[15] joined in this order.
Join16(p) ==
    (((p[0] \o p[1]) \o (p[2] \o p[3])) \o ((p[4] \o p[5]) \o (p[6] \o p[7])))
        \o (((p[8] \o p[9]) \o (p[10] \o p[11]))
                \o ((p[12] \o p[13]) \o (p[14] \o p[15])))

\* A set of integers as an ascending sequence (sort.Ints), by cutting the
\* value range lo..lo+w-1 in sixteen.
RECURSIVE SortRange(_, _, _)
SortRange(S, lo, w) ==
    IF S = {} THEN <<>>
    ELSE IF w = 1 \/ Cardinality(S) = 1 THEN <<CHOOSE x \in S : TRUE>>
    ELSE LET q == (w + 15) \div 16
         IN  Join16([k \in 0..15 |->
                        SortRange({x \in S : (x - lo) \div q = k}, lo + k * q, q)])

SortInts(S) == SortRange(S, -268435456, 536870912)

\* sort.SearchInts(a, x): the smallest index i (0-based) with a[i] >= x,
\* len(a) if there is none; binary search.
\* SearchInts counting from the end of the list.
SearchIntsFromEnd(a, x) ==
    LET RECURSIVE Up(_, _)
        Up(lo, hi) == IF lo >= hi THEN lo
                      ELSE IF a[((lo + hi) \div 2) + 1] < x THEN Up(((lo + hi) \div 2) + 1, hi)
                      ELSE Up(lo, (lo + hi) \div 2)
    IN  Len(a) - 1 - Up(0, Len(a))

RECURSIVE SearchFrom(_, _, _, _)
SearchFrom(a, x, lo, hi) ==
    IF lo >= hi THEN lo
    ELSE LET h == (lo + hi) \div 2
         IN  IF a[h + 1] < x THEN SearchFrom(a, x, h + 1, hi)
             ELSE SearchFrom(a, x, lo, h)

SearchInts(a, x) == SearchFrom(a, x, 0, Len(a))

\* A function or sequence with its values computed once.
Force(f) == f @@ <<>>

\* The table before init: nothing written.
EmptyTable == <<>>

\* The whole array, every slot zero; and the written slots of a whole array.
ZeroArray == Force([i \in 0..evalMask |-> ZeroEntry])
Written(table) == Force([slot \in {i \in 0..evalMask : table[i] # ZeroEntry} |-> table[slot]])

\* VacantSlot without the probing: the first slot, vacant or not.
VacantSlotFirst(table, key, fuel) == Slot(key)

\* The slot the insertion loop "for evalTable[key&evalMask].key != 0
\* { key = hash(key) }" stops at; -1 if it is still running after ProbeLimit.
RECURSIVE VacantSlot(_, _, _)
VacantSlot(table, key, fuel) ==
    IF fuel = 0 THEN -1
    ELSE IF Entry(table, Slot(key)).key = 0 THEN Slot(key)
    ELSE VacantSlot(table, hash(key), fuel - 1)

---------------------------------------------------------------------------
(* init, the table build, as one computation.                              *)

\* The index tuples one pass of the enumeration loop visits, in order,
\* starting at ix: at most n of them (n is halved at each level).
RECURSIVE WalkIdx(_, _, _)
WalkIdx(ix, dupes, n) ==
    IF n <= 1 THEN <<ix>>
    ELSE LET a == WalkIdx(ix, dupes, n \div 2)
             nx == nextIdx(a[Len(a)], 13, dupes)
         IN  IF Len(a) < n \div 2 \/ ~nx.more THEN a
             ELSE a \o WalkIdx(nx.ix, dupes, n - n \div 2)

\* Every hand init enumerates: size 3, size 5, then the size-5 flushes.
EnumHands ==
    LET Pass(ix, flush) ==
            LET w == WalkIdx(ix, 1 - flush, 8192)
            IN  [i \in 1..Len(w) |-> BuildHand(w[i], flush)]
    IN  Force(Pass(<<0, 0, 0>>, 0) \o Pass(<<0, 0, 0, 0, 0>>, 0)
                  \o Pass(<<0, 1, 2, 3, 4>>, 1))

\* <<index(hand), evalSlow(hand, false).rank>> of every hand of hands.
EnumPairs(hands) ==
    Force([i \in 1..Len(hands) |-> <<index(hands[i]), evalSlow(hands[i], FALSE).rank>>])

\* Pairs by ascending key: the order the packing loop inserts them in.
RECURSIVE SortPairs(_, _, _)
SortPairs(S, lo, w) ==
    IF S = {} THEN <<>>
    ELSE IF w = 1 \/ Cardinality(S) = 1 THEN <<CHOOSE x \in S : TRUE>>
    ELSE LET q == (w + 15) \div 16
         IN  Join16([k \in 0..15 |->
                        SortPairs({x \in S : (x[1] - lo) \div q = k}, lo + k * q, q)])

\* The packing loop over order[lo..hi] (pairs by ascending key), ranks taken
\* from all (allScores); ok turns FALSE if an insertion loop does not end.
RECURSIVE PackRange(_, _, _, _, _)
PackRange(t, order, all, lo, hi) ==
    IF ~t.ok \/ lo > hi THEN t
    ELSE IF lo = hi
    THEN LET slot == VacantSlot(t.table, order[lo][1], ProbeLimit)
             val == SearchInts(all, order[lo][2])
         IN  IF slot = -1 THEN [t EXCEPT !.ok = FALSE]
             ELSE [t EXCEPT !.table = TablePut(@, slot,
                                        [key |-> order[lo][1], val |-> val])]
    ELSE LET mid == (lo + hi) \div 2
             half == PackRange(t, order, all, lo, mid)
         IN  IF ~half.ok THEN half ELSE PackRange(half, order, all, mid + 1, hi)

\* init on the enumerated hands: [table, allScores, end].  end is "ready"
\* when init returns, "hang" when an insertion loop does not end, "fatal"
\* when log.Fatalf is reached (a key met twice with different slow keys,
\* or the ScoreMax self-check).
Built(hands) ==
    LET pairs == EnumPairs(hands)
        pairSet == {pairs[i] : i \in 1..Len(pairs)}
        all == SortInts({p[2] : p \in pairSet})
        order == SortPairs(pairSet, -268435456, 536870912)
        t == PackRange([table |-> ZeroArray, ok |-> TRUE], order, all, 1, Len(order))
    IN  [table |-> Written(t.table),
         allScores |-> all,
         end |-> IF Cardinality({p[1] : p \in pairSet}) # Cardinality(pairSet)
                 THEN "fatal"
                 ELSE IF ~t.ok THEN "hang"
                 ELSE IF ScoreMax # Len(all) - 1 THEN "fatal"
                 ELSE "ready"]

---------------------------------------------------------------------------
(* The 2-4 comparison: evaluator.go, b2i / cmp.                            *)

b2i(b) == IF b THEN 1 ELSE 0

\* cmp without the majority bonus.
cmpNoBonus(a0, b0, a1, b1, a2, b2) ==
    b2i(a0 > b0) + b2i(a1 > b1) + b2i(a2 > b2)
        - (b2i(b0 > a0) + b2i(b1 > a1) + b2i(b2 > a2))

cmp(a0, b0, a1, b1, a2, b2) ==
    LET wins == b2i(a0 > b0) + b2i(a1 > b1) + b2i(a2 > b2)
        losses == b2i(b0 > a0) + b2i(b1 > a1) + b2i(b2 > a2)
        bonus == b2i(wins > losses) - b2i(losses > wins)
    IN  wins - losses + bonus

---------------------------------------------------------------------------
(* float64 scores.  A score is NaN or whole + num/unit with 0 <= num/unit  *)
(* < 1; num is a pair <<hi, lo>> standing for hi * Limb + lo, so that the   *)
(* numerator f*m*b of the product scorer (up to ScoreMax^3) is exact.       *)
(* Every score of the model is a float64 the program computes exactly:      *)
(* f*m*b < 2^53, and quotients of distinct numerators by ScoreMax^3 differ  *)
(* by far more than one unit in the last place; the sampled scorer is used  *)
(* with 1 or 2 samples, whose probabilities are dyadic.                     *)

Limb == 8192

NaN == [nan |-> TRUE, whole |-> 0, num |-> <<0, 0>>, unit |-> "1"]

Float(whole, hi, lo, unit) ==
    [nan |-> FALSE, whole |-> whole, num |-> <<hi, lo>>, unit |-> unit]

\* x >= y on float64: false when either side is NaN.  Fractions are compared
\* within one unit only; no other comparison arises.
FloatGE(x, y) ==
    /\ ~x.nan
    /\ ~y.nan
    /\ \/ x.whole > y.whole
       \/ /\ x.whole = y.whole
          /\ CASE y.num = <<0, 0>> -> TRUE
               [] x.num = <<0, 0>> -> FALSE
               [] x.unit = y.unit ->
                     \/ x.num[1] > y.num[1]
                     \/ x.num[1] = y.num[1] /\ x.num[2] >= y.num[2]

\* bestEV as Play starts: -9999999.9.
StartEV == Float(-10000000, 0, 1, "1/10")

---------------------------------------------------------------------------
(* The scorers: eval.go, MaxProdEvaluator; evaluator.go, SampledEvaluator.  *)

\* evaluateProdHand: f*m*b / ScoreMax^3.
evaluateProdHand(f, m, b) ==
    LET fm == f * m
        lo == (fm % Limb) * b
    IN  IF f = ScoreMax /\ m = ScoreMax /\ b = ScoreMax
        THEN Float(1, 0, 0, "1/ScoreMax^3")
        ELSE Float(0, (fm \div Limb) * b + lo \div Limb, lo % Limb, "1/ScoreMax^3")

\* A SampledEvaluator is given by the samples its tables were built from:
\* wins[i][r] is the share of played[..][i] that are <= r (rollout's
\* cumulative sum divided by N).  Won is that share times N.
Won(played, i, r) == Cardinality({j \in 1..Len(played) : played[j][i] <= r})

\* SampledEvaluator.evaluateHand.  With N = 0 every table entry is 0/0, so
\* the result is NaN; otherwise it is the source's expression over the
\* common denominator N^3.
evaluateHand(se, f, m, b) ==
    LET N == Len(se.played)
        pf == Won(se.played, 1, f)
        pm == Won(se.played, 2, m)
        pb == Won(se.played, 3, b)
        qf == N - pf
        qm == N - pm
        qb == N - pb
        pbon == (pf * pm + pf * pb + pm * pb) * N - 2 * pf * pm * pb
        qbon == (qf * qm + qf * qb + qm * qb) * N - 2 * qf * qm * qb
        n == (pf + pm + pb - qf - qm - qb) * N * N + pbon - qbon
        d == N * N * N
    IN  IF N = 0 THEN NaN
        ELSE Float(n \div d, 0, n % d, "1/N^3")

\* The scorer an evaluator hands to Play.  "shifted" is a scorer a caller
\* of Play supplies through the HandEvaluator interface: the sum of the
\* three ranks minus 1e8.
Evaluator(e, f, m, b) ==
    CASE e.kind = "prod" -> evaluateProdHand(f, m, b)
      [] e.kind = "sampled" -> evaluateHand(e, f, m, b)
      [] e.kind = "shifted" -> Float(f + m + b - 100000000, 0, 0, "1")

---------------------------------------------------------------------------
(* The play engine: eval.go, next3 / next4 / Play.                          *)

MaximaCap == 128

\* Hand{}: the zero value.
ZeroHand == [Front |-> <<0, 0, 0>>, Middle |-> <<0, 0, 0, 0, 0>>,
             Back |-> <<0, 0, 0, 0, 0>>]

\* next3(ix): [ix, more].
RECURSIVE next3From(_, _)
next3From(ix, i) ==
    IF i >= 2
    THEN [ix |-> [ix EXCEPT ![3] = @ + 1], more |-> ix[3] + 1 < 13]
    ELSE LET ix1 == [ix EXCEPT ![i + 1] = @ + 1]
         IN  IF ix1[i + 1] # ix1[i + 2] THEN [ix |-> ix1, more |-> TRUE]
             ELSE next3From([ix1 EXCEPT ![i + 1] = i], i + 1)

next3(ix) == next3From(ix, 0)

\* next4(ix): [ix, more]; ix[0] is never touched.
RECURSIVE next4From(_, _)
next4From(ix, i) ==
    IF i >= 4
    THEN [ix |-> [ix EXCEPT ![5] = @ + 1], more |-> ix[5] + 1 < 9]
    ELSE LET ix1 == [ix EXCEPT ![i + 1] = @ + 1]
         IN  IF ix1[i + 1] # ix1[i + 2] THEN [ix |-> ix1, more |-> TRUE]
             ELSE next4From([ix1 EXCEPT ![i + 1] = i - 1], i + 1)

\* next4 that gives up one value of ix[4] early.
next4Early(ix) ==
    LET n == next4From(ix, 1)
    IN  [n EXCEPT !.more = n.more /\ n.ix[5] < 8]

next4(ix) == next4From(ix, 1)

\* The loop "for i := 0; i < 13; i++" that deals the cards that are not in
\* front to back and middle; panic stands for middle[i-f-b] out of range.
RECURSIVE SplitFrom(_, _, _, _)
SplitFrom(c, fIx, bIx, s) ==
    IF s.i >= 13 \/ s.panic THEN s
    ELSE IF s.f < 3 /\ fIx[s.f + 1] = s.i
    THEN SplitFrom(c, fIx, bIx, [s EXCEPT !.i = @ + 1, !.f = @ + 1])
    ELSE IF s.b < 5 /\ s.i = bIx[s.b + 1] + s.f + 1
    THEN SplitFrom(c, fIx, bIx,
                   [s EXCEPT !.back[s.b + 1] = c[s.i + 1], !.i = @ + 1, !.b = @ + 1])
    ELSE IF s.i - s.f - s.b > 4
    THEN [s EXCEPT !.panic = TRUE]
    ELSE SplitFrom(c, fIx, bIx,
                   [s EXCEPT !.middle[s.i - s.f - s.b + 1] = c[s.i + 1], !.i = @ + 1])

Split(c, fIx, bIx) ==
    SplitFrom(c, fIx, bIx,
              [i |-> 0, f |-> 0, b |-> 0, panic |-> FALSE,
               back |-> <<0, 0, 0, 0, 0>>, middle |-> <<0, 0, 0, 0, 0>>])

\* One iteration of the dominance loop "for i := 0; i < len(maxima); i++"
\* for the triple t, on [maxima, dominated, i]; nothing happens once the loop
\* has ended.  A removal moves the last triple into place i and the loop
\* goes on at i + 1.
ScanStep(st, t) ==
    IF st.dominated \/ st.i >= Len(st.maxima) THEN st
    ELSE LET mx == st.maxima
             m == mx[st.i + 1]
         IN  IF m[1] >= t[1] /\ m[2] >= t[2] /\ m[3] >= t[3]
             THEN [st EXCEPT !.dominated = TRUE]
             ELSE IF m[1] <= t[1] /\ m[2] <= t[2] /\ m[3] <= t[3]
             THEN [st EXCEPT !.maxima = SubSeq([mx EXCEPT ![st.i + 1] = mx[Len(mx)]],
                                               1, Len(mx) - 1),
                             !.i = @ + 1]
             ELSE [st EXCEPT !.i = @ + 1]

\* n iterations of the loop.
RECURSIVE ScanFor(_, _, _)
ScanFor(st, t, n) ==
    IF n = 0 \/ st.dominated \/ st.i >= Len(st.maxima) THEN st
    ELSE IF n = 1 THEN ScanStep(st, t)
    ELSE ScanFor(ScanFor(st, t, n \div 2), t, n - n \div 2)

\* The whole loop, which ends within len(maxima) iterations.
Scan(mx, t) ==
    ScanFor([maxima |-> mx, dominated |-> FALSE, i |-> 0], t, Len(mx))

\* The selection "if ev >= bestEV { ... }" on a record with best and bestEV.
Select(st, ev, front, back, middle, em, eb) ==
    IF FloatGE(ev, st.bestEV)
    THEN [st EXCEPT !.bestEV = ev,
                    !.best = [Front |-> front,
                              Middle |-> IF em > eb THEN back ELSE middle,
                              Back |-> IF em > eb THEN middle ELSE back]]
    ELSE st

\* The largest score so far: top is <<>> before the first score.
Top(un, ev) ==
    IF un.top = <<>> THEN [un EXCEPT !.top = <<ev>>]
    ELSE IF FloatGE(ev, un.top[1]) THEN [un EXCEPT !.top = <<ev>>]
    ELSE un

\* The scored partition of score ev comes after those fb was taken from:
\* it takes over only with a strictly greater score.
First(fb, ev, front, back, middle, em, eb) ==
    IF fb.ev = <<>> \/ (FloatGE(ev, fb.ev[1]) /\ ~FloatGE(fb.ev[1], ev))
    THEN [hand |-> [Front |-> front,
                    Middle |-> IF em > eb THEN back ELSE middle,
                    Back |-> IF em > eb THEN middle ELSE back],
          ev |-> <<ev>>]
    ELSE fb

\* The body of the loop over backs, from the Eval5 calls on.  st holds
\* maxima, best, bestEV, stats, unfiltered: the best and bestEV of the
\* same loop with the dominance filter taken out (every partition that
\* passes the two checks is scored), with the largest of those scores,
\* and firstBest: the first of the partitions Play scored that has the
\* largest of their scores.
Consider(st, e, ev5, front, ef, back, middle) ==
    LET eb == ev5[back]
        em == ev5[middle]
        sem == IF em > eb THEN eb ELSE em
        seb == IF em > eb THEN em ELSE eb
        sc == Scan(st.maxima, <<ef, sem, seb>>)
        ev == Evaluator(e, ef, sem, seb)
        un == Top(Select(st.unfiltered, ev, front, back, middle, em, eb), ev)
    IN  IF ef >= em \/ ef >= eb
        THEN [st EXCEPT !.stats.StrongFront = @ + 1]
        ELSE IF em = eb
        THEN [st EXCEPT !.stats.BackEqualsMiddle = @ + 1]
        ELSE IF sc.dominated
        THEN [st EXCEPT !.maxima = sc.maxima, !.unfiltered = un]
        ELSE Select([st EXCEPT !.maxima = IF Len(sc.maxima) < MaximaCap
                                          THEN Append(sc.maxima, <<ef, sem, seb>>)
                                          ELSE sc.maxima,
                               !.stats.Hands = @ + 1,
                               !.unfiltered = un,
                               !.firstBest = First(@, ev, front, back, middle, em, eb)],
                    ev, front, back, middle, em, eb)

\* bIx and the index tuples "for next4(&bIdx)" visits after it, in order:
\* at most n of them (n is halved at each level).
RECURSIVE next4Walk(_, _)
next4Walk(bIx, n) ==
    IF n <= 1 THEN <<bIx>>
    ELSE LET a == next4Walk(bIx, n \div 2)
             nx == next4(a[Len(a)])
         IN  IF Len(a) < n \div 2 \/ ~nx.more THEN a
             ELSE a \o next4Walk(nx.ix, n - n \div 2)

\* The index tuples of the backs; they are the same for every front.
BackIdxs == Tail(next4Walk(<<-1, -1, 1, 2, 3>>, 256))

\* The loop "for next4(&bIdx)" for one front, over BackIdxs[lo..hi].
RECURSIVE BackLoop(_, _, _, _, _, _, _, _, _)
BackLoop(st, c, e, ev5, fIx, front, ef, lo, hi) ==
    IF st.panic \/ lo > hi THEN st
    ELSE IF lo = hi
    THEN LET sp == Split(c, fIx, BackIdxs[lo])
         IN  IF sp.panic THEN [st EXCEPT !.panic = TRUE]
             ELSE Consider(st, e, ev5, front, ef, sp.back, sp.middle)
    ELSE LET mid == (lo + hi) \div 2
             half == BackLoop(st, c, e, ev5, fIx, front, ef, lo, mid)
         IN  IF half.panic THEN half
             ELSE BackLoop(half, c, e, ev5, fIx, front, ef, mid + 1, hi)

\* fIdx and the index tuples "for next3(&fIdx)" visits after it, in order:
\* at most n of them (n is halved at each level).
RECURSIVE next3Walk(_, _)
next3Walk(fIx, n) ==
    IF n <= 1 THEN <<fIx>>
    ELSE LET a == next3Walk(fIx, n \div 2)
             nx == next3(a[Len(a)])
         IN  IF Len(a) < n \div 2 \/ ~nx.more THEN a
             ELSE a \o next3Walk(nx.ix, n - n \div 2)

\* The index tuples of the fronts.
FrontIdxs == Tail(next3Walk(<<-1, 1, 2>>, 512))

\* The loop "for next3(&fIdx)" over FrontIdxs[lo..hi].
RECURSIVE FrontLoop(_, _, _, _, _, _)
FrontLoop(st, c, e, ev, lo, hi) ==
    IF st.panic \/ lo > hi THEN st
    ELSE IF lo = hi
    THEN LET fIx == FrontIdxs[lo]
             front == [i \in 1..3 |-> c[fIx[i] + 1]]
         IN  BackLoop(st, c, e, ev, fIx, front, ev[front], 1, Len(BackIdxs))
    ELSE LET mid == (lo + hi) \div 2
             half == FrontLoop(st, c, e, ev, lo, mid)
         IN  IF half.panic THEN half
             ELSE FrontLoop(half, c, e, ev, mid + 1, hi)

\* The hands of k cards of c in ascending position, with what Eval3 / Eval5
\* returns for each.
EvalsOf(table, c) ==
    LET w3 == WalkIdx(<<0, 1, 2>>, 0, 512)
        w5 == WalkIdx(<<0, 1, 2, 3, 4>>, 0, 2048)
        h3 == {[i \in 1..3 |-> c[w3[j][i] + 1]] : j \in 1..Len(w3)}
        h5 == {[i \in 1..5 |-> c[w5[j][i] + 1]] : j \in 1..Len(w5)}
    IN  Force([h \in h3 \cup h5 |->
                  IF Len(h) = 3 THEN Eval3(table, h).val ELSE Eval5(table, h).val])

---------------------------------------------------------------------------
(* Variables a specification does not use stay at these values.            *)

\* Nothing has been enumerated.
NoneVisited == [fronts |-> {}, nf |-> 0, backs |-> {}, nb |-> 0, total |-> 0]

\* No partition has been scored.
NoneScored == [hand |-> ZeroHand, ev |-> <<>>]

ZeroStats == [Hands |-> 0, StrongFront |-> 0, BackEqualsMiddle |-> 0]

PlayIdle ==
    /\ cards = <<>>
    /\ he = [kind |-> "none"]
    /\ evals = <<>>
    /\ fIdx = <<-1, 1, 2>>
    /\ maxima = <<>>
    /\ best = ZeroHand
    /\ bestEV = StartEV
    /\ stats = ZeroStats
    /\ unfiltered = [best |-> ZeroHand, bestEV |-> StartEV, top |-> <<>>]
    /\ firstBest = NoneScored
    /\ bIdx = <<-1, -1, 1, 2, 3>>
    /\ visited = NoneVisited

PlayVars ==
    <<cards, he, evals, fIdx, maxima, best, bestEV, stats, unfiltered, firstBest,
      bIdx, visited>>

NoCall == [fn |-> "none"]

\* Before package init has run.
TableIdle ==
    /\ allScores = <<>>
    /\ evalTable = EmptyTable

TableVars == <<allScores, evalTable>>

\* RolloutEvaluator{}: the zero value.  wins holds the lengths of the three
\* tables; their entries are Won(played, i, r) / N, as rollout fills them.
ZeroRollout == [PreRollout |-> FALSE, Separable |-> FALSE, N |-> 0,
                played |-> <<>>, wins |-> <<0, 0, 0>>]

RolloutIdle == re = ZeroRollout

\* No rollout is running.
RunIdle == run = [mpc |-> "none"]

---------------------------------------------------------------------------
(* SpecCard: one call of MakeCard, then Suit() and Rank() of its card.     *)

\* Bounds: suits 0..SuitBound (a uint8), ranks -RankBound..RankBound (an int).
SuitBound == 5
RankBound == 15

InitCard ==
    /\ pc = "start"
    /\ call = NoCall
    /\ ret = NoCall
    /\ TableIdle
    /\ PlayIdle
    /\ RolloutIdle
    /\ RunIdle

CallMakeCard ==
    /\ pc = "start"
    /\ \E s \in 0..SuitBound, r \in (-RankBound)..RankBound :
          /\ call' = [fn |-> "MakeCard", s |-> s, r |-> r]
          /\ ret' = MakeCard(s, r)
    /\ pc' = "done"
    /\ UNCHANGED <<TableVars, PlayVars, re, run>>

NextCard == CallMakeCard

SpecCard == InitCard /\ [][NextCard]_vars

\* C10: MakeCard(s, r) returns an error when s > 3 or r is outside 1..13,
\* negative ranks included, and otherwise returns without error a card c
\* with c.Suit() = s and c.Rank() = r.
C10_MakeCardChecksRange ==
    call.fn = "MakeCard" =>
        IF call.s <= 3 /\ call.r >= 1 /\ call.r <= 13
        THEN /\ ret.err = "nil"
             /\ CardSuit(ret.card) = call.s
             /\ CardRank(ret.card) = call.r
        ELSE ret.err = "illegal card"

\* What MakeCard does: in range it round-trips, s > 3, r = 0 and r > 13 are
\* errors, and a negative rank with a legal suit panics.
MakeCardAsCoded ==
    call.fn = "MakeCard" =>
        IF call.s <= 3 /\ call.r >= 1 /\ call.r <= 13
        THEN /\ ret.err = "nil"
             /\ CardSuit(ret.card) = call.s
             /\ CardRank(ret.card) = call.r
        ELSE IF call.s <= 3 /\ call.r < 0
        THEN ret.err = "panic"
        ELSE ret.err = "illegal card"

---------------------------------------------------------------------------
(* SpecSlow: one call of evalSlow on a 5-card hand.                        *)

\* The hands: the 5-card hands of the table build (every multiset of five
\* ranks with mixed suits, every set of five ranks in spades), in the order
\* built and in the reverse order.
Reverse(c) == [i \in 1..Len(c) |-> c[Len(c) + 1 - i]]

InitSlow ==
    /\ pc = "start"
    /\ call = NoCall
    /\ ret = NoCall
    /\ TableIdle
    /\ PlayIdle
    /\ RolloutIdle
    /\ RunIdle

CallEvalSlow ==
    /\ pc = "start"
    /\ \E i \in 1..Len(EnumHands), reverse \in BOOLEAN, replace \in BOOLEAN :
          LET c == IF reverse THEN Reverse(EnumHands[i]) ELSE EnumHands[i]
          IN  /\ Len(c) = 5
              /\ call' = [fn |-> "evalSlow", c |-> c, replace |-> replace]
              /\ ret' = evalSlow(c, replace)
    /\ pc' = "done"
    /\ UNCHANGED <<TableVars, PlayVars, re, run>>

NextSlow == CallEvalSlow

SpecSlow == InitSlow /\ [][NextSlow]_vars

\* The ranks of a hand, and what a straight is by the rules: five distinct
\* ranks in a row, the ace below the 2 or above the king, no wrap-around.
RankSet(c) == {CardRank(c[i]) : i \in 1..Len(c)}

RunFrom(lo) == {((lo + j - 1) % 13) + 1 : j \in 0..4}

IsRun(rs) == \E lo \in 1..10 : rs = RunFrom(lo)

RunTop(rs) == IF 1 \in rs /\ 13 \in rs THEN 14 ELSE CHOOSE r \in rs : \A q \in rs : q <= r

RunHand(lo, flush) ==
    [i \in 1..5 |-> Card(IF flush THEN Spade ELSE buildSuits[i], ((lo + i - 2) % 13) + 1)]

\* C7: evalSlow classifies a 5-card hand as a straight (or straight flush)
\* exactly when its ranks are five in a row without wrap-around; the key of
\* a straight is its top card, so A-2-3-4-5 (top 5) ranks strictly below
\* 2-3-4-5-6 and T-J-Q-K-A (top 14) is the highest straight.
C7_StraightsNoWrapAround ==
    call.fn = "evalSlow" =>
        LET rs == RankSet(call.c)
            flush == isFlush(call.c)
        IN  /\ ~ret.err
            /\ (ret.cat \in {4, 8}) <=> IsRun(rs)
            /\ IsRun(rs) =>
                  /\ ret.cat = IF flush THEN 8 ELSE 4
                  /\ ret.rank = evalScore(ret.cat, <<RunTop(rs)>>)
                  /\ \A lo \in 1..10 :
                        LET other == evalSlow(RunHand(lo, flush), call.replace).rank
                        IN  /\ (ret.rank < other) <=> (RunTop(rs) < lo + 4)
                            /\ (ret.rank = other) <=> (RunTop(rs) = lo + 4)

\* The wheel A-2-3-4-5 in mixed suits was ranked a 5-high straight.
C7_WheelRanked ==
    /\ call.fn = "evalSlow"
    /\ RankSet(call.c) = {1, 2, 3, 4, 5}
    /\ ~isFlush(call.c)
    /\ ret.cat = 4
    /\ ret.rank = evalScore(4, <<5>>)

---------------------------------------------------------------------------
(* SpecCmp: one call of cmp on two rank triples.                           *)

\* Bound: lane ranks 0..CmpRankBound (an int16 in 0..ScoreMax in the program).
CmpRankBound == 2

InitCmp ==
    /\ pc = "start"
    /\ call = NoCall
    /\ ret = NoCall
    /\ TableIdle
    /\ PlayIdle
    /\ RolloutIdle
    /\ RunIdle

CallCmp ==
    /\ pc = "start"
    /\ \E a \in [0..2 -> 0..CmpRankBound], b \in [0..2 -> 0..CmpRankBound] :
          /\ call' = [fn |-> "cmp", a |-> a, b |-> b]
          /\ ret' = cmp(a[0], b[0], a[1], b[1], a[2], b[2])
    /\ pc' = "done"
    /\ UNCHANGED <<TableVars, PlayVars, re, run>>

NextCmp == CallCmp

SpecCmp == InitCmp /\ [][NextCmp]_vars

\* The number of lanes in which triple a beats triple b.
LanesWon(a, b) == Cardinality({i \in 0..2 : a[i] > b[i]})

\* C8: cmp(a, b) = -cmp(b, a); its value lies in -4..4, is +4 exactly when
\* a wins all three lanes and -4 exactly when b wins all three.
C8_CmpAntisymmetricSweep ==
    call.fn = "cmp" =>
        LET a == call.a
            b == call.b
        IN  /\ ret = -cmp(b[0], a[0], b[1], a[1], b[2], a[2])
            /\ ret \in -4..4
            /\ (ret = 4) <=> (LanesWon(a, b) = 3)
            /\ (ret = -4) <=> (LanesWon(b, a) = 3)

\* A sweep was scored +4.
C8_SweepScored ==
    /\ call.fn = "cmp"
    /\ LanesWon(call.a, call.b) = 3
    /\ ret = 4

---------------------------------------------------------------------------
(* SpecTable: package init builds the table, then Eval is called on a hand. *)

InitTable ==
    /\ pc = "start"
    /\ call = NoCall
    /\ ret = NoCall
    /\ TableIdle
    /\ PlayIdle
    /\ RolloutIdle
    /\ RunIdle

\* func init(): the table build.
PokerInit ==
    /\ pc = "start"
    /\ \E b \in {Built(EnumHands)} :
           /\ pc' = b.end
           /\ evalTable' = b.table
           /\ allScores' = b.allScores
    /\ UNCHANGED <<call, ret, PlayVars, re, run>>

\* The hands Eval is called on: every hand of the table build (one per key),
\* the same rank patterns in other suits (flushes in hearts, four hearts and
\* a spade, three spades), and the hands of the end-to-end scenarios.
HeartFlush(c) == [i \in 1..5 |-> Card(Heart, CardRank(c[i]))]
FourHearts(c) == [i \in 1..5 |-> Card(IF i = 5 THEN Spade ELSE Heart, CardRank(c[i]))]
ThreeSpades(c) == [i \in 1..3 |-> Card(Spade, CardRank(c[i]))]

DistinctRanks(c) == Cardinality({CardRank(c[i]) : i \in 1..Len(c)}) = Len(c)

RoyalFlush == <<Card(Spade, 1), Card(Spade, 13), Card(Spade, 12), Card(Spade, 11),
                Card(Spade, 10)>>

ScenarioHands ==
    << RoyalFlush,
      <<Card(Heart, 1), Card(Diamond, 1), Card(Club, 1)>>,
      <<Card(Heart, 1), Card(Diamond, 1), Card(Club, 13)>>,
      <<Card(Heart, 13), Card(Diamond, 13), Card(Club, 12), Card(Diamond, 12), Card(Heart, 11)>>,
      <<Card(Heart, 2), Card(Diamond, 2), Card(Club, 2), Card(Heart, 3), Card(Diamond, 3)>>,
      <<Card(Heart, 1), Card(Diamond, 2), Card(Club, 3), Card(Spade, 4), Card(Heart, 5)>>,
      <<Card(Heart, 2), Card(Diamond, 3), Card(Club, 4), Card(Spade, 5), Card(Heart, 6)>> >>

EvalHands(c) ==
    {c} \cup (IF isFlush(c) THEN {HeartFlush(c), FourHearts(c)} ELSE {})
        \cup (IF Len(c) = 3 /\ DistinctRanks(c) THEN {ThreeSpades(c)} ELSE {})

\* A call of Eval after init, with what the inlined Eval3 / Eval5 returns
\* for the same hand.
CallEval ==
    /\ pc = "ready"
    /\ \E c \in {ScenarioHands[i] : i \in 1..Len(ScenarioHands)} \cup UNION {EvalHands(EnumHands[i]) : i \in 1..Len(EnumHands)} :
          /\ call' = [fn |-> "Eval", c |-> c]
          /\ ret' = [e |-> Eval(evalTable, c),
                     fast |-> IF Len(c) = 3 THEN Eval3(evalTable, c)
                              ELSE Eval5(evalTable, c)]
    /\ pc' = "done"
    /\ UNCHANGED <<TableVars, PlayVars, re, run>>

NextTable == PokerInit \/ CallEval

SpecTable == InitTable /\ [][NextTable]_vars

\* C4: after the table build the probe sequence k, hash(k), ... of every
\* inserted key ends at the entry holding that key and returns the rank
\* stored with it, a value in 0..ScoreMax (Eval3 / Eval5 return the same);
\* the insertion of every key found a vacant slot, so init ended normally.
C4_ProbesEndAtTheKey ==
    /\ pc \notin {"hang", "fatal"}
    /\ call.fn = "Eval" =>
          /\ ret.e.found
          /\ Entry(evalTable, ret.e.slot).key = index(call.c)
          /\ Entry(evalTable, ret.e.slot).val = ret.e.val
          /\ ret.e.val \in 0..ScoreMax
          /\ ret.fast = ret.e
          /\ \A slot \in {Slot(index(call.c)), Slot(hash(index(call.c)))} \ {ret.e.slot} :
                Entry(evalTable, slot).key # index(call.c)

\* A lookup that found its key only after hashing on from the first slot.
C4_LookupReprobed ==
    /\ call.fn = "Eval"
    /\ ret.e.found
    /\ ret.e.slot # Slot(index(call.c))
    /\ Entry(evalTable, ret.e.slot).key = index(call.c)

\* A hand without a repeated card: a hand from a single deck.
NoDuplicateCard(c) == Cardinality({c[i] : i \in 1..Len(c)}) = Len(c)

\* C5 as stated: Eval of the royal flush is ScoreMax and ScoreMax is the
\* largest value Eval returns over the 3- and 5-card hands of a single deck.
C5_RoyalFlushIsScoreMax ==
    call.fn = "Eval" =>
        /\ call.c = RoyalFlush => ret.e.val = ScoreMax
        /\ NoDuplicateCard(call.c) => ret.e.val <= ScoreMax

\* C5 (amended): Eval of the royal flush is ScoreMax - 13, and that is the
\* largest value Eval returns over the 3- and 5-card hands of a single deck;
\* the thirteen ranks above it, up to ScoreMax, belong to the five-of-a-kind
\* keys init enumerates with repeated cards, ScoreMax itself to five aces.
C5_RoyalFlushTopsTheDeck ==
    /\ pc # "fatal"
    /\ call.fn = "Eval" =>
          /\ ret.e.found
          /\ call.c = RoyalFlush => ret.e.val = ScoreMax - 13
          /\ NoDuplicateCard(call.c) => ret.e.val <= ScoreMax - 13
          /\ ret.e.val <= ScoreMax
          /\ (ret.e.val > ScoreMax - 13) <=>
                (Len(call.c) = 5 /\ Cardinality(RankSet(call.c)) = 1)
          /\ (ret.e.val = ScoreMax) <=> (Len(call.c) = 5 /\ RankSet(call.c) = {1})

\* Eval was called on the royal flush and returned ScoreMax - 13.
C5_RoyalFlushEvaluated ==
    /\ call.fn = "Eval"
    /\ call.c = RoyalFlush
    /\ ret.e.val = ScoreMax - 13

\* The slow keys of the scenario hands.
ScenarioSlow ==
    Force([i \in 1..Len(ScenarioHands) |-> evalSlow(ScenarioHands[i], FALSE).rank])

\* The first dense rank of a category: evalScore packs the category above
\* five base-16 kickers.
CategoryFirst(all, cat) == SearchInts(all, evalScore(cat, <<>>))

\* C6: Eval orders hands as evalSlow(h, false).rank does: the value Eval
\* returns is the position of the hand's slow key in the strictly ascending
\* list of distinct slow keys, so Eval(h1) < Eval(h2) exactly when the slow
\* key of h1 is below that of h2, and a hand of a lower category always has
\* a strictly lower Eval.
C6_EvalOrderIsSlowOrder ==
    /\ pc = "ready" =>
          \A i \in 1..(Len(allScores) - 1) : allScores[i] < allScores[i + 1]
    /\ call.fn = "Eval" =>
          LET s == evalSlow(call.c, FALSE)
              v == ret.e.val
          IN  /\ ~s.err
              /\ ret.e.found
              /\ v \in 0..(Len(allScores) - 1)
              /\ allScores[v + 1] = s.rank
              /\ CategoryFirst(allScores, s.cat) <= v
              /\ v < CategoryFirst(allScores, s.cat + 1)
              /\ \A i \in 1..Len(ScenarioHands) :
                    LET w == Eval(evalTable, ScenarioHands[i]).val
                    IN  /\ (v < w) <=> (s.rank < ScenarioSlow[i])
                        /\ (v = w) <=> (s.rank = ScenarioSlow[i])

\* The lowest full house, 2-2-2-3-3, was evaluated above an ace-high flush
\* and below the royal flush.
C6_FullHouseAboveFlush ==
    /\ call.fn = "Eval"
    /\ call.c = ScenarioHands[5]
    /\ evalSlow(call.c, FALSE).cat = 6
    /\ ret.e.val > Eval(evalTable, HeartFlush(<<Card(Spade, 1), Card(Spade, 13),
                                   Card(Spade, 12), Card(Spade, 11), Card(Spade, 9)>>)).val
    /\ ret.e.val < Eval(evalTable, RoyalFlush).val

---------------------------------------------------------------------------
(* SpecPlay: package init, then one call of Play.                          *)

\* The deals: the four aces, kings and queens with a jack; and a deal that
\* fills maxima to its capacity.
Deals ==
    << <<Card(Heart, 1), Card(Diamond, 1), Card(Club, 1), Card(Spade, 1),
         Card(Heart, 13), Card(Diamond, 13), Card(Club, 13), Card(Spade, 13),
         Card(Heart, 12), Card(Diamond, 12), Card(Club, 12), Card(Spade, 12),
         Card(Heart, 11)>>,
       <<Card(Heart, 6), Card(Heart, 1), Card(Club, 3), Card(Spade, 4),
         Card(Club, 5), Card(Heart, 10), Card(Heart, 11), Card(Diamond, 8),
         Card(Diamond, 9), Card(Diamond, 10), Card(Heart, 13), Card(Spade, 13),
         Card(Heart, 12)>> >>

\* The evaluators: MaxProdEvaluator; a separable rollout or sampled scorer
\* built from no sample and from two samples; and the caller's own scorer.
Evaluators ==
    { [kind |-> "prod"],
      [kind |-> "sampled", played |-> <<>>],
      [kind |-> "sampled", played |-> <<<<678, 4489, 5458>>, <<2285, 4829, 6237>>>>],
      [kind |-> "shifted"] }

InitPlay ==
    /\ pc = "start"
    /\ call = NoCall
    /\ ret = NoCall
    /\ TableIdle
    /\ PlayIdle
    /\ RolloutIdle
    /\ RunIdle

\* Play is called: the locals before the loop.
StartPlay ==
    /\ pc = "ready"
    /\ \E d \in 1..Len(Deals), e \in Evaluators :
          /\ cards' = Deals[d]
          /\ he' = e
          /\ evals' = EvalsOf(evalTable, Deals[d])
    /\ fIdx' = <<-1, 1, 2>>
    /\ maxima' = <<>>
    /\ best' = ZeroHand
    /\ bestEV' = StartEV
    /\ stats' = ZeroStats
    /\ unfiltered' = [best |-> ZeroHand, bestEV |-> StartEV, top |-> <<>>]
    /\ firstBest' = NoneScored
    /\ pc' = "play"
    /\ call' = [fn |-> "Play"]
    /\ UNCHANGED <<ret, TableVars, bIdx, visited, re, run>>

\* The iterations of "for next3(&fIdx)" with the same fIdx[2]: their fronts
\* are FrontIdxs[lo..hi], and each is played with all its backs.
PlayFront ==
    /\ pc = "play"
    /\ next3(fIdx).more
    /\ \E lo \in {i \in 1..Len(FrontIdxs) : FrontIdxs[i] = next3(fIdx).ix} :
          \E hi \in {j \in lo..Len(FrontIdxs) :
                        /\ \A i \in lo..j : FrontIdxs[i][3] = FrontIdxs[lo][3]
                        /\ j = Len(FrontIdxs) \/ FrontIdxs[j + 1][3] # FrontIdxs[lo][3]} :
             \E st \in {FrontLoop([maxima |-> maxima, best |-> best, bestEV |-> bestEV,
                                   stats |-> stats, unfiltered |-> unfiltered,
                                   firstBest |-> firstBest, panic |-> FALSE],
                                  cards, he, evals, lo, hi)} :
                /\ fIdx' = FrontIdxs[hi]
                /\ maxima' = st.maxima
                /\ best' = st.best
                /\ bestEV' = st.bestEV
                /\ stats' = st.stats
                /\ unfiltered' = st.unfiltered
                /\ firstBest' = st.firstBest
                /\ pc' = IF st.panic THEN "panic" ELSE "play"
    /\ UNCHANGED <<call, ret, cards, he, evals, TableVars, bIdx, visited, re, run>>

\* next3 is exhausted: return best, stats.
PlayReturn ==
    /\ pc = "play"
    /\ ~next3(fIdx).more
    /\ pc' = "returned"
    /\ ret' = [hand |-> best, stats |-> stats]
    /\ UNCHANGED <<call, TableVars, PlayVars, re, run>>

NextPlay == PokerInit \/ StartPlay \/ PlayFront \/ PlayReturn

SpecPlay == InitPlay /\ [][NextPlay]_vars

\* The cards in the three lanes of h.
LaneCards(h) ==
    {h.Front[i] : i \in 1..3} \cup {h.Middle[i] : i \in 1..5}
        \cup {h.Back[i] : i \in 1..5}

Dealt == {cards[i] : i \in 1..Len(cards)}

\* The scorer does not decrease when a lane rank grows: the product, the
\* rank sum, and win shares counted over at least one sample.
Monotone(e) ==
    \/ e.kind \in {"prod", "shifted"}
    \/ e.kind = "sampled" /\ Len(e.played) > 0

\* The score of h on its canonical triple (front, smaller5, larger5).
ScoreOf(h) ==
    LET ef == Eval3(evalTable, h.Front).val
        em == Eval5(evalTable, h.Middle).val
        eb == Eval5(evalTable, h.Back).val
    IN  Evaluator(he, ef, IF em > eb THEN eb ELSE em, IF em > eb THEN em ELSE eb)

\* C1: for every deal and every evaluator, the hand Play returns is a legal
\* full hand: the 13 dealt cards, each in exactly one lane, with
\* Eval3(Front) < Eval5(Middle) < Eval5(Back).
C1_PlayReturnsLegalHand ==
    pc = "returned" =>
       /\ LaneCards(ret.hand) = Dealt
       /\ Eval3(evalTable, ret.hand.Front).val < Eval5(evalTable, ret.hand.Middle).val
       /\ Eval5(evalTable, ret.hand.Middle).val < Eval5(evalTable, ret.hand.Back).val

\* The hand is legal whenever some scored partition reached the starting
\* bestEV.
LegalWhenScored ==
    pc = "returned" /\ bestEV # StartEV => C1_PlayReturnsLegalHand

\* C2: for a monotone scorer, the score of the hand Play returns is the
\* maximum of the scorer over the partitions that pass the foul check and
\* the middle = back check, also when maxima has reached its capacity.
C2_PlayFindsTheMaximum ==
    pc = "returned" /\ Monotone(he) /\ unfiltered.top # <<>> =>
       /\ LaneCards(ret.hand) = Dealt
       /\ ScoreOf(ret.hand) = unfiltered.top[1]

\* The dominance filter and the capacity lose no score: bestEV is the
\* largest score that reached the starting bestEV.
FilterKeepsTheScore ==
    pc = "returned" /\ Monotone(he) => bestEV = unfiltered.bestEV

\* maxima was full at some return.
MaximaNeverFull == ~(pc = "returned" /\ Len(maxima) = MaximaCap)

\* C3: for a monotone scorer, the enumeration without the dominance filter
\* chooses the same hand as Play.
C3_FilterKeepsTheChosenHand ==
    pc = "returned" /\ Monotone(he) => ret.hand = unfiltered.best

\* C16: when several scored partitions have the best score, Play returns
\* the first of them in the enumeration order.
C16_FirstOfTheBestIsReturned ==
    pc = "returned" /\ firstBest.ev = <<bestEV>> => ret.hand = firstBest.hand

\* Without a tie the first and the last partition of the best score are
\* the same one: the hand returned has the best score.
C16_BestScoreIsReturned ==
    pc = "returned" /\ firstBest.ev = <<bestEV>> =>
       ScoreOf(ret.hand) = firstBest.ev[1]

\* Triple a is >= triple b in all three coordinates.
Dominates(a, b) == a[1] >= b[1] /\ a[2] >= b[2] /\ a[3] >= b[3]

\* C17: after the candidates processed so far, maxima holds at most 128
\* triples and no retained triple is dominated by another retained triple.
C17_MaximaAreParetoMaxima ==
    pc \in {"play", "returned"} =>
       /\ Len(maxima) <= MaximaCap
       /\ \A i, j \in 1..Len(maxima) :
             i # j => ~Dominates(maxima[i], maxima[j])

\* maxima never holds more than its capacity.
MaximaWithinCap == Len(maxima) <= MaximaCap

---------------------------------------------------------------------------
(* SpecSampled: a RolloutEvaluator is made, Init may run, and              *)
(* NewSampledEvaluatorFromRollout is called on it.                         *)

\* Bound: N is in 0..MaxN.
MaxN == 2

\* The rank triples a rollout's opponent plays.
Samples ==
    { <<678, 4489, 5458>>, <<2285, 4829, 6237>>,
      <<678, 4829, 6237>>, <<2285, 4489, 5458>> }

\* The sequences of n triples of Samples.
RECURSIVE Played(_)
Played(n) ==
    IF n = 0 THEN {<<>>}
    ELSE {Append(p, t) : p \in Played(n - 1), t \in Samples}

\* rollout(cs, opp, N): N hands are played, then three tables of
\* ScoreMax + 1 entries are made.
rollout(played) ==
    [played |-> played, wins |-> <<ScoreMax + 1, ScoreMax + 1, ScoreMax + 1>>]

InitSampled ==
    /\ pc = "new"
    /\ call = NoCall
    /\ ret = NoCall
    /\ TableIdle
    /\ PlayIdle
    /\ RolloutIdle
    /\ RunIdle

\* &RolloutEvaluator{PreRollout: .., Separable: .., N: ..}
MakeRollout ==
    /\ pc = "new"
    /\ \E p \in BOOLEAN, s \in BOOLEAN, n \in 0..MaxN :
          re' = [ZeroRollout EXCEPT !.PreRollout = p, !.Separable = s, !.N = n]
    /\ pc' = "made"
    /\ UNCHANGED <<call, ret, TableVars, PlayVars, run>>

\* re.Init()
RolloutInit ==
    /\ pc = "made"
    /\ IF ~re.PreRollout THEN re' = re
       ELSE \E played \in Played(re.N) :
               \E r \in {rollout(played)} :
                  re' = [re EXCEPT !.played = r.played, !.wins = r.wins]
    /\ pc' = "inited"
    /\ UNCHANGED <<call, ret, TableVars, PlayVars, run>>

\* NewSampledEvaluatorFromRollout(re): [se, err].
NewSampledEvaluatorFromRollout(r) ==
    IF ~r.Separable
    THEN [se |-> <<>>, err |-> "rollout evaluator not separable"]
    ELSE IF ~r.PreRollout
    THEN [se |-> <<>>, err |-> "rollout evaluator not pre-rolled-out"]
    ELSE IF Len(r.wins) = 0
    THEN [se |-> <<>>, err |-> "rollout evaluator hasn't been prepared"]
    ELSE [se |-> <<[kind |-> "sampled", played |-> r.played, wins |-> r.wins]>>,
          err |-> "nil"]

CallNewSampled ==
    /\ pc \in {"made", "inited"}
    /\ call' = [fn |-> "NewSampledEvaluatorFromRollout"]
    /\ ret' = NewSampledEvaluatorFromRollout(re)
    /\ pc' = "done"
    /\ UNCHANGED <<re, TableVars, PlayVars, run>>

NextSampled == MakeRollout \/ RolloutInit \/ CallNewSampled

SpecSampled == InitSampled /\ [][NextSampled]_vars

\* The rollout holds no win tables.
Uninitialised(r) == \A i \in 1..3 : r.wins[i] = 0

\* C9: NewSampledEvaluatorFromRollout returns an error and no scorer when the
\* rollout is not separable, not pre-rolled-out or uninitialised, and a
\* scorer without an error otherwise.
C9_ErrorUnlessPrepared ==
    pc = "done" =>
       IF ~re.Separable \/ ~re.PreRollout \/ Uninitialised(re)
       THEN ret.err # "nil" /\ ret.se = <<>>
       ELSE ret.err = "nil" /\ ret.se # <<>>

\* The two flag checks are as stated.
ErrorUnlessSeparablePreRolled ==
    pc = "done" /\ (~re.Separable \/ ~re.PreRollout) =>
       ret.err # "nil" /\ ret.se = <<>>

---------------------------------------------------------------------------
(* SpecMarshal: SampledEvaluator.Marshal, then UnmarshalSampledEvaluator   *)
(* on what was written.  Here a scorer carries its three tables, and a     *)
(* table entry is NaN or the fraction num / den.  The text is a sequence   *)
(* of tokens: what "%d " and "%f " print, without the blanks.              *)

\* Bound: a table has at most MarshalLen entries.
MarshalLen == 2

Rat(num, den) == [nan |-> FALSE, num |-> num, den |-> den]
RatNaN == [nan |-> TRUE, num |-> 0, den |-> 1]

\* The table entries of the model: 1/3 is not a decimal, 1/128 lies halfway
\* between two decimals of six places, NaN is what rollout stores for N = 0.
Entries == {Rat(1, 3), Rat(1, 128), RatNaN}

\* x to six decimal places, in millionths, as "%f" rounds: to the nearest,
\* and to the even one from halfway; a count of millionths is itself.
Micro(x) ==
    LET q == (x.num * 1000000) \div x.den
        r == (x.num * 1000000) % x.den
    IN  IF x.den = 1000000 THEN x.num
        ELSE IF 2 * r > x.den THEN q + 1
        ELSE IF 2 * r = x.den THEN q + (q % 2)
        ELSE q

\* What "%f" prints for x, and what "%d" prints for n.
FloatToken(x) ==
    IF x.nan THEN [kind |-> "NaN", v |-> 0] ELSE [kind |-> "float", v |-> Micro(x)]
IntToken(n) == [kind |-> "int", v |-> n]

\* The lanes of Marshal in another order: back, middle, front.
MarshalBackFirst(wins) ==
    LET Lane(i) == <<IntToken(Len(wins[i]))>>
                       \o [j \in 1..Len(wins[i]) |-> FloatToken(wins[i][j])]
    IN  Lane(3) \o Lane(2) \o Lane(1)

\* Marshal: for each lane, its length and then its entries.
Marshal(wins) ==
    LET Lane(i) == <<IntToken(Len(wins[i]))>>
                       \o [j \in 1..Len(wins[i]) |-> FloatToken(wins[i][j])]
    IN  Lane(1) \o Lane(2) \o Lane(3)

\* What Fscanf "%f" makes of a token.
ScanFloat(tok) ==
    IF tok.kind = "NaN" THEN RatNaN
    ELSE IF tok.kind = "int" THEN Rat(tok.v, 1)
    ELSE Rat(tok.v, 1000000)

\* The body of Unmarshal's loop for one lane, reading from token p:
\* [lane, next, err].  make panics on a negative length.
ReadLane(toks, p) ==
    IF p > Len(toks) THEN [lane |-> <<>>, next |-> p, err |-> "unexpected EOF"]
    ELSE IF toks[p].kind # "int"
    THEN [lane |-> <<>>, next |-> p, err |-> "expected integer"]
    ELSE IF toks[p].v < 0
    THEN [lane |-> <<>>, next |-> p, err |-> "panic"]
    ELSE IF p + toks[p].v > Len(toks)
    THEN [lane |-> <<>>, next |-> p, err |-> "unexpected EOF"]
    ELSE [lane |-> [j \in 1..toks[p].v |-> ScanFloat(toks[p + j])],
          next |-> p + toks[p].v + 1, err |-> "nil"]

\* UnmarshalSampledEvaluator: [se, err]; se is <<>> for nil.
UnmarshalSampledEvaluator(toks) ==
    LET l1 == ReadLane(toks, 1)
        l2 == ReadLane(toks, l1.next)
        l3 == ReadLane(toks, l2.next)
    IN  IF l1.err # "nil" THEN [se |-> <<>>, err |-> l1.err]
        ELSE IF l2.err # "nil" THEN [se |-> <<>>, err |-> l2.err]
        ELSE IF l3.err # "nil" THEN [se |-> <<>>, err |-> l3.err]
        ELSE [se |-> <<[wins |-> <<l1.lane, l2.lane, l3.lane>>]>>, err |-> "nil"]

\* The tables of at most n entries.
RECURSIVE Tables(_)
Tables(n) ==
    IF n = 0 THEN {<<>>}
    ELSE Tables(n - 1)
             \cup {Append(t, x) : t \in {u \in Tables(n - 1) : Len(u) = n - 1},
                                  x \in Entries}

InitMarshal ==
    /\ pc = "scorer"
    /\ call = NoCall
    /\ ret = NoCall
    /\ TableIdle
    /\ PlayIdle
    /\ RolloutIdle
    /\ RunIdle

\* se.Marshal(w) on a scorer with any three tables.
CallMarshal ==
    /\ pc = "scorer"
    /\ \E f \in Tables(MarshalLen), m \in Tables(MarshalLen), b \in Tables(MarshalLen) :
          /\ call' = [fn |-> "Marshal", wins |-> <<f, m, b>>]
          /\ ret' = [out |-> Marshal(<<f, m, b>>), err |-> "nil"]
    /\ pc' = "written"
    /\ UNCHANGED <<TableVars, PlayVars, re, run>>

\* UnmarshalSampledEvaluator(r) on the text written, whole or cut short by
\* its last token.
CallUnmarshal ==
    /\ pc = "written"
    /\ \E cut \in {0, 1} :
          /\ cut <= Len(ret.out)
          /\ call' = [fn |-> "Unmarshal", wins |-> call.wins, cut |-> cut]
          /\ ret' = UnmarshalSampledEvaluator(SubSeq(ret.out, 1, Len(ret.out) - cut))
    /\ pc' = "read"
    /\ UNCHANGED <<TableVars, PlayVars, re, run>>

NextMarshal == CallMarshal \/ CallUnmarshal

SpecMarshal == InitMarshal /\ [][NextMarshal]_vars

\* x and y agree to six decimal places.
SameToSixPlaces(x, y) == FloatToken(x) = FloatToken(y)

\* C11: UnmarshalSampledEvaluator(Marshal(S)) succeeds, and its three tables
\* have the lengths of S's, lane by lane, with every entry equal to S's to
\* six decimal places.
C11_MarshalRoundTrip ==
    pc = "read" /\ call.cut = 0 =>
       /\ ret.err = "nil"
       /\ ret.se # <<>>
       /\ \A i \in 1..3 :
             /\ Len(ret.se[1].wins[i]) = Len(call.wins[i])
             /\ \A j \in 1..Len(call.wins[i]) :
                   SameToSixPlaces(ret.se[1].wins[i][j], call.wins[i][j])

\* A round trip of three tables of different lengths, whose entries come
\* back changed: 1/3 as 333333 millionths, 1/128 as 7812 millionths.
C11_RoundTripRounded ==
    /\ pc = "read"
    /\ call.cut = 0
    /\ call.wins = <<<<Rat(1, 3)>>, <<>>, <<Rat(1, 128), RatNaN>>>>
    /\ ret.err = "nil"
    /\ ret.se[1].wins = <<<<Rat(333333, 1000000)>>, <<>>,
                          <<Rat(7812, 1000000), RatNaN>>>>

\* C12: a sampled scorer handed to a caller without an error has three
\* tables of exactly ScoreMax + 1 entries each.  Here for the scorers
\* UnmarshalSampledEvaluator returns.
C12_TablesCoverEveryRank ==
    pc = "read" /\ ret.err = "nil" =>
       \A i \in 1..3 : Len(ret.se[1].wins[i]) = ScoreMax + 1

\* The same for the scorers NewSampledEvaluatorFromRollout returns.
RolloutTablesCoverEveryRank ==
    pc = "done" /\ ret.err = "nil" =>
       \A i \in 1..3 : ret.se[1].wins[i] = ScoreMax + 1

---------------------------------------------------------------------------
(* SpecRollout: one call of rollout(cs, opp, N).  The main goroutine sends  *)
(* the indexes 0..N-1 into the channel cases, closes it and waits; every   *)
(* worker receives indexes until the channel is closed and drained, plays  *)
(* a shuffled deck for each and stores the ranks in played.  got and wrote *)
(* record, per index, the workers that received it and that wrote its slot. *)

\* Bounds: the number of workers and the capacity of cases (16 and 16 in
\* the source).
Workers == 2
ChanCap == 2

\* The rank triples a worker's Play call may produce.
Draws == {<<678, 4489, 5458>>, <<2285, 4829, 6237>>}

InitRollout ==
    /\ pc = "new"
    /\ call = NoCall
    /\ ret = NoCall
    /\ TableIdle
    /\ PlayIdle
    /\ RolloutIdle
    /\ RunIdle

\* rollout is called: played and cases are made, the workers are started.
StartRollout ==
    /\ pc = "new"
    /\ \E n \in 0..MaxN :
          /\ call' = [fn |-> "rollout", N |-> n]
          /\ run' = [mpc |-> "send", N |-> n, cases |-> <<>>, closed |-> FALSE,
                     sent |-> 0, wg |-> Workers,
                     wpc |-> [w \in 1..Workers |-> "recv"],
                     job |-> [w \in 1..Workers |-> -1],
                     played |-> [i \in 1..n |-> <<>>],
                     got |-> [i \in 1..n |-> <<>>],
                     wrote |-> [i \in 1..n |-> <<>>]]
    /\ pc' = "rollout"
    /\ UNCHANGED <<ret, TableVars, PlayVars, re>>

\* "cases <- i": blocks while the channel is full.
Send ==
    /\ pc = "rollout"
    /\ run.mpc = "send"
    /\ run.sent < run.N
    /\ Len(run.cases) < ChanCap
    /\ run' = [run EXCEPT !.cases = Append(@, run.sent), !.sent = @ + 1]
    /\ UNCHANGED <<pc, call, ret, TableVars, PlayVars, re>>

\* Close without closing: main goes on to wait, the channel stays open.
CloseForgotten ==
    /\ pc = "rollout"
    /\ run.mpc = "send"
    /\ run.sent = run.N
    /\ run' = [run EXCEPT !.mpc = "wait"]
    /\ UNCHANGED <<pc, call, ret, TableVars, PlayVars, re>>

\* "close(cases)" after the last send.
Close ==
    /\ pc = "rollout"
    /\ run.mpc = "send"
    /\ run.sent = run.N
    /\ run' = [run EXCEPT !.closed = TRUE, !.mpc = "wait"]
    /\ UNCHANGED <<pc, call, ret, TableVars, PlayVars, re>>

\* Recv that leaves the index in the channel.
RecvNoTake(w) ==
    /\ pc = "rollout"
    /\ run.wpc[w] = "recv"
    /\ run.cases # <<>>
    /\ Len(run.got[Head(run.cases) + 1]) < Workers
    /\ run' = [run EXCEPT !.job[w] = Head(run.cases),
                          !.got[Head(run.cases) + 1] = Append(@, w),
                          !.wpc[w] = "play"]
    /\ UNCHANGED <<pc, call, ret, TableVars, PlayVars, re>>

\* "for c := range cases": worker w receives the next index.
Recv(w) ==
    /\ pc = "rollout"
    /\ run.wpc[w] = "recv"
    /\ run.cases # <<>>
    /\ run' = [run EXCEPT !.job[w] = Head(run.cases),
                          !.cases = Tail(@),
                          !.got[Head(run.cases) + 1] = Append(@, w),
                          !.wpc[w] = "play"]
    /\ UNCHANGED <<pc, call, ret, TableVars, PlayVars, re>>

\* The body of the worker's loop: shuffle, Play, "played[c] = ...".
Write(w) ==
    /\ pc = "rollout"
    /\ run.wpc[w] = "play"
    /\ \E t \in Draws :
          run' = [run EXCEPT !.played[run.job[w] + 1] = <<t>>,
                             !.wrote[run.job[w] + 1] = Append(@, w),
                             !.wpc[w] = "recv"]
    /\ UNCHANGED <<pc, call, ret, TableVars, PlayVars, re>>

\* The range loop ends on the closed, drained channel: "wg.Done()".
WorkerDone(w) ==
    /\ pc = "rollout"
    /\ run.wpc[w] = "recv"
    /\ run.cases = <<>>
    /\ run.closed
    /\ run' = [run EXCEPT !.wpc[w] = "exited", !.wg = @ - 1]
    /\ UNCHANGED <<pc, call, ret, TableVars, PlayVars, re>>

\* "wg.Wait()" returns once the counter is zero.
Wait ==
    /\ pc = "rollout"
    /\ run.mpc = "wait"
    /\ run.wg = 0
    /\ run' = [run EXCEPT !.mpc = "derive"]
    /\ UNCHANGED <<pc, call, ret, TableVars, PlayVars, re>>

\* The tables are derived from played, and rollout returns.  A slot never
\* written holds the zero triple.
Derive ==
    /\ pc = "rollout"
    /\ run.mpc = "derive"
    /\ ret' = rollout([i \in 1..run.N |->
                          IF run.played[i] = <<>> THEN <<0, 0, 0>> ELSE run.played[i][1]])
    /\ run' = [run EXCEPT !.mpc = "done"]
    /\ pc' = "rolled"
    /\ UNCHANGED <<call, TableVars, PlayVars, re>>

NextRollout ==
    \/ StartRollout
    \/ Send
    \/ Close
    \/ \E w \in 1..Workers : Recv(w)
    \/ \E w \in 1..Workers : Write(w)
    \/ \E w \in 1..Workers : WorkerDone(w)
    \/ Wait
    \/ Derive

SpecRollout == InitRollout /\ [][NextRollout]_vars

\* Fair scheduling: main and every worker keep taking the steps they can.
SpecRolloutFair ==
    /\ SpecRollout
    /\ WF_vars(Send) /\ WF_vars(Close) /\ WF_vars(Wait) /\ WF_vars(Derive)
    /\ \A w \in 1..Workers :
          WF_vars(Recv(w)) /\ WF_vars(Write(w)) /\ WF_vars(WorkerDone(w))

\* C13: under every interleaving each index is received by at most one
\* worker and its slot is written at most once, by that worker; when the
\* tables are derived every worker has finished, and every index has been
\* received and written exactly once.
C13_EachJobOnceThenBarrier ==
    run.mpc # "none" =>
       /\ \A i \in 1..run.N :
             /\ Len(run.got[i]) <= 1
             /\ Len(run.wrote[i]) <= 1
             /\ run.wrote[i] # <<>> => run.wrote[i] = run.got[i]
       /\ run.mpc \in {"derive", "done"} =>
             /\ \A w \in 1..Workers : run.wpc[w] = "exited"
             /\ \A i \in 1..run.N : Len(run.got[i]) = 1 /\ Len(run.wrote[i]) = 1

\* A rollout of MaxN samples has returned, and two workers shared the work.
C13_TwoWorkersShared ==
    /\ pc = "rolled"
    /\ run.N = MaxN
    /\ \E i, j \in 1..run.N : run.wrote[i] # run.wrote[j]

---------------------------------------------------------------------------
(* SpecCdf: the tables rollout derives from played, in full.  Table entry  *)
(* r of the source is entry r + 1 here.                                     *)

\* Bound: at most CdfN samples.
CdfN == 6

\* The rank triples of the samples: the lowest and the highest rank occur.
CdfDraws == {<<0, 4489, ScoreMax>>, <<678, 4829, 5458>>}

RECURSIVE CdfPlayed(_)
CdfPlayed(n) ==
    IF n = 0 THEN {<<>>}
    ELSE {Append(p, t) : p \in CdfPlayed(n - 1), t \in CdfDraws}

\* "for _, s := range played { wins[i][s[i]]++ }" on a zeroed table:
\* entry r counts the samples of rank r in lane i.
Tally(played, i) ==
    [j \in 1..ScoreMax + 1 |->
        Cardinality({k \in 1..Len(played) : played[k][i] = j - 1})]

\* t / float64(N): 0/0 is NaN.
Quotient(t, N) == IF N = 0 THEN RatNaN ELSE Rat(t, N)

\* The running sum that forgets what came before.
RunningSumNoCarry(tally, N, lo, hi, t) ==
    [j \in 1..hi - lo + 1 |-> Quotient(tally[lo + j - 1], N)]

\* "t += wins[i][j]; wins[i][j] = t / float64(N)" for j in lo..hi, entered
\* with the sum t; the range is halved at each level.
RECURSIVE RunningSum(_, _, _, _, _)
RunningSum(tally, N, lo, hi, t) ==
    IF lo = hi THEN <<Quotient(t + tally[lo], N)>>
    ELSE LET mid == (lo + hi) \div 2
             a == RunningSum(tally, N, lo, mid, t)
         IN  a \o RunningSum(tally, N, mid + 1, hi,
                             IF N = 0 THEN 0 ELSE a[Len(a)].num)

\* The three tables rollout returns for played.
WinTables(played) ==
    [i \in 1..3 |-> RunningSum(Tally(played, i), Len(played), 1, ScoreMax + 1, 0)]

InitCdf ==
    /\ pc = "samples"
    /\ call = NoCall
    /\ ret = NoCall
    /\ TableIdle
    /\ PlayIdle
    /\ RolloutIdle
    /\ RunIdle

\* The tables are derived from N samples.
CallWinTables ==
    /\ pc = "samples"
    /\ \E n \in 0..CdfN :
          \E played \in CdfPlayed(n) :
             /\ call' = [fn |-> "rollout", played |-> played]
             /\ ret' = [wins |-> WinTables(played)]
    /\ pc' = "tables"
    /\ UNCHANGED <<TableVars, PlayVars, re, run>>

NextCdf == CallWinTables

SpecCdf == InitCdf /\ [][NextCdf]_vars

\* C15: for N >= 1, entry r of lane l is (the number of samples whose rank
\* in lane l is at most r) / N; each table is non-decreasing, lies in
\* [0, 1], and ends with 1.
C15_TablesAreTheSampleCdf ==
    pc = "tables" /\ Len(call.played) >= 1 =>
       \A l \in 1..3 :
          LET w == ret.wins[l]
              N == Len(call.played)
          IN  /\ Len(w) = ScoreMax + 1
              /\ \A r \in 0..ScoreMax :
                    /\ ~w[r + 1].nan
                    /\ w[r + 1].num * N = Won(call.played, l, r) * w[r + 1].den
                    /\ 0 <= w[r + 1].num /\ w[r + 1].num <= w[r + 1].den
                    /\ r > 0 => w[r].num * w[r + 1].den <= w[r + 1].num * w[r].den
              /\ w[ScoreMax + 1].num = w[ScoreMax + 1].den

\* Tables of CdfN samples in which both triples occur: the front table
\* steps at rank 0 and at rank 678, and is flat in between.
C15_TableWithSteps ==
    /\ pc = "tables"
    /\ Len(call.played) = CdfN
    /\ ret.wins[1][1].num > 0
    /\ ret.wins[1][678].num = ret.wins[1][1].num
    /\ ret.wins[1][679].num > ret.wins[1][678].num

---------------------------------------------------------------------------
(* SpecEnum: the two loops of Play, one call of next3 or next4 at a time,  *)
(* on the card positions 0..12.                                             *)

\* The 13 positions of c.
Positions == [i \in 1..13 |-> i - 1]

InitEnum ==
    /\ pc = "fronts"
    /\ call = NoCall
    /\ ret = NoCall
    /\ TableIdle
    /\ PlayIdle
    /\ RolloutIdle
    /\ RunIdle

\* "for next3(&fIdx)" enters its body: the front is taken and bIdx is set.
NextFront ==
    /\ pc = "fronts"
    /\ next3(fIdx).more
    /\ fIdx' = next3(fIdx).ix
    /\ bIdx' = <<-1, -1, 1, 2, 3>>
    /\ visited' = [visited EXCEPT !.fronts = @ \cup {{fIdx'[i] : i \in 1..3}},
                                  !.nf = @ + 1,
                                  !.backs = {},
                                  !.nb = 0]
    /\ pc' = "backs"
    /\ UNCHANGED <<call, ret, TableVars, cards, he, evals, maxima, best, bestEV,
                   stats, unfiltered, firstBest, re, run>>

\* "for next4(&bIdx)" enters its body: back and middle are dealt.
NextBack ==
    /\ pc = "backs"
    /\ next4(bIdx).more
    /\ bIdx' = next4(bIdx).ix
    /\ \E sp \in {Split(Positions, fIdx, bIdx')} :
          /\ pc' = IF sp.panic THEN "panic" ELSE pc
          /\ visited' = [visited EXCEPT
                            !.backs = @ \cup {[back |-> {sp.back[i] : i \in 1..5},
                                               middle |-> {sp.middle[i] : i \in 1..5}]},
                            !.nb = @ + 1,
                            !.total = @ + 1]
    /\ UNCHANGED <<call, ret, TableVars, cards, he, evals, fIdx, maxima, best,
                   bestEV, stats, unfiltered, firstBest, re, run>>

\* next4 returns false: the loop over backs ends.
BacksDone ==
    /\ pc = "backs"
    /\ ~next4(bIdx).more
    /\ bIdx' = next4(bIdx).ix
    /\ pc' = "fronts"
    /\ UNCHANGED <<call, ret, TableVars, cards, he, evals, fIdx, maxima, best,
                   bestEV, stats, unfiltered, firstBest, visited, re, run>>

\* next3 returns false: the loop over fronts ends.
FrontsDone ==
    /\ pc = "fronts"
    /\ ~next3(fIdx).more
    /\ fIdx' = next3(fIdx).ix
    /\ pc' = "enumerated"
    /\ UNCHANGED <<call, ret, TableVars, cards, he, evals, maxima, best, bestEV,
                   stats, unfiltered, firstBest, bIdx, visited, re, run>>

NextEnum == NextFront \/ NextBack \/ BacksDone \/ FrontsDone

SpecEnum == InitEnum /\ [][NextEnum]_vars

\* The k-subsets of S.
Subsets(S, k) == {T \in SUBSET S : Cardinality(T) = k}

\* The positions left when the current front is taken out.
Rest == {i \in 0..12 : \A k \in 1..3 : fIdx[k] # i}

\* The fronts visited are 3-subsets, each visited once, and all 286 of them
\* once next3 is exhausted.
FrontsOnce ==
    /\ visited.nf = Cardinality(visited.fronts)
    /\ pc = "enumerated" => visited.fronts = Subsets(0..12, 3) /\ visited.nf = 286

\* The backs visited for a front are visited once each, with the complement
\* as middle.
BacksOnce ==
    pc = "backs" =>
       /\ visited.nb = Cardinality(visited.backs)
       /\ \A b \in visited.backs :
             /\ Cardinality(b.back) = 5
             /\ b.back \subseteq Rest
             /\ b.middle = Rest \ b.back

\* C18: every 3-subset is visited once as front (286 fronts), and for each
\* front every 5-subset of the remaining 10 positions is visited once as
\* back (252 per front) with the complement as middle; at most 72,072
\* partitions in total.
C18_EveryFiveSubsetIsABack ==
    /\ FrontsOnce
    /\ BacksOnce
    /\ pc = "backs" /\ ~next4(bIdx).more =>
          /\ {b.back : b \in visited.backs} = Subsets(Rest, 5)
          /\ visited.nb = 252
    /\ visited.total <= 72072

\* C18 as the code has it: every 3-subset is visited once as front (286
\* fronts), and for each front the backs visited are, once each, the 126
\* 5-subsets of the remaining 10 positions that hold the lowest of them,
\* with the complement as middle: each split of the ten into two fives is
\* visited once; 36,036 partitions in total.
C18_EverySplitOnce ==
    /\ FrontsOnce
    /\ BacksOnce
    /\ pc = "backs" /\ ~next4(bIdx).more =>
          /\ {b.back : b \in visited.backs}
                = {T \in Subsets(Rest, 5) : \A i \in Rest : \E j \in T : j <= i}
          /\ visited.nb = 126
          /\ \A T \in Subsets(Rest, 5) :
                Cardinality({b \in visited.backs : T \in {b.back, b.middle}}) = 1
    /\ pc # "panic"
    /\ visited.total <= 36036
    /\ pc = "enumerated" => visited.total = 36036

\* next4 is exhausted for the first front: its 126 splits have been dealt.
C18_FrontPlayedWithItsSplits ==
    pc = "backs" /\ ~next4(bIdx).more /\ visited.nf = 1 /\ visited.nb = 126

---------------------------------------------------------------------------
(* SpecTrain: NewTrainedSampledEvaluator(opp, N).  e is held in re; the    *)
(* entries of e.wins are WinTables(re.played).                              *)

\* Bound: N is in 0..TrainN.
TrainN == 2

\* What a trained opponent's tables were built from.
OppPlayed == <<<<678, 4489, 5458>>, <<2285, 4829, 6237>>>>

OppTables == WinTables(OppPlayed)

NilTables == <<<<>>, <<>>, <<>>>>

\* The opponents: MaxProdEvaluator; a trained SampledEvaluator, the zero
\* SampledEvaluator, and one read from a file whose first table has
\* ScoreMax + 2 entries; RolloutEvaluators with and without Init.
Opponents ==
    { [kind |-> "prod"],
      [kind |-> "sampled", wins |-> OppTables],
      [kind |-> "sampled", wins |-> NilTables],
      [kind |-> "sampled",
       wins |-> [OppTables EXCEPT ![1] = Append(@, Rat(1, 1))]],
      [kind |-> "rollout", PreRollout |-> TRUE, Separable |-> TRUE,
       played |-> OppPlayed, wins |-> OppTables],
      [kind |-> "rollout", PreRollout |-> TRUE, Separable |-> TRUE,
       played |-> <<>>, wins |-> NilTables],
      [kind |-> "rollout", PreRollout |-> TRUE, Separable |-> FALSE,
       played |-> OppPlayed, wins |-> OppTables],
      [kind |-> "rollout", PreRollout |-> FALSE, Separable |-> TRUE,
       played |-> <<>>, wins |-> NilTables] }

\* The opponent's evaluator reads wins[i][rank] of these tables for the
\* ranks of every partition it scores, those of the hand it plays among
\* them; <<>> when it reads no table of the opponent.
TablesRead(opp) ==
    IF opp.kind = "sampled" THEN <<opp.wins>>
    ELSE IF opp.kind = "rollout" /\ opp.PreRollout /\ opp.Separable THEN <<opp.wins>>
    ELSE <<>>

\* Playing the triple t indexes a table of the opponent out of range.
EvaluatorPanics(opp, t) ==
    /\ TablesRead(opp) # <<>>
    /\ \E i \in 1..3 : t[i] >= Len(TablesRead(opp)[1][i])

\* oppWins: <<>> is the nil pointer.  len(re.wins) is the length of an
\* array of three slices.
OppWins(opp) ==
    IF opp.kind = "rollout" /\ opp.PreRollout /\ opp.Separable /\ Len(opp.wins) > 0
    THEN <<opp.wins>>
    ELSE IF opp.kind = "sampled" THEN <<opp.wins>>
    ELSE <<>>

\* (x + y) / 2
Half(x, y) ==
    IF x.nan \/ y.nan THEN RatNaN
    ELSE Rat(x.num * y.den + y.num * x.den, 2 * x.den * y.den)

\* "for j := range (*oppWins)[i] { e.wins[i][j] = (e.wins[i][j] +
\* (*oppWins)[i][j]) / 2 }": [wins, panic]; panic is e.wins[i][j] out of
\* range.
Averaged(wins, ow) ==
    IF ow = <<>> THEN [wins |-> wins, panic |-> FALSE]
    ELSE IF \E i \in 1..3 : Len(ow[1][i]) > Len(wins[i])
    THEN [wins |-> wins, panic |-> TRUE]
    ELSE [wins |-> [i \in 1..3 |->
                      [j \in 1..Len(wins[i]) |->
                          IF j <= Len(ow[1][i]) THEN Half(wins[i][j], ow[1][i][j])
                          ELSE wins[i][j]]],
          panic |-> FALSE]

InitTrain ==
    /\ pc = "untrained"
    /\ call = NoCall
    /\ ret = NoCall
    /\ TableIdle
    /\ PlayIdle
    /\ RolloutIdle
    /\ RunIdle

\* e := &RolloutEvaluator{PreRollout: true, Separable: true, Opponent: opp, N: N}
CallTrained ==
    /\ pc = "untrained"
    /\ \E opp \in Opponents, N \in 0..TrainN :
          /\ call' = [fn |-> "NewTrainedSampledEvaluator", opp |-> opp, N |-> N]
          /\ re' = [ZeroRollout EXCEPT !.PreRollout = TRUE, !.Separable = TRUE, !.N = N]
    /\ pc' = "made"
    /\ UNCHANGED <<ret, TableVars, PlayVars, run>>

\* e.Init(): the opponent plays N random deals.
TrainedInit ==
    /\ pc = "made"
    /\ \E played \in CdfPlayed(re.N) :
          IF \E k \in 1..Len(played) : EvaluatorPanics(call.opp, played[k])
          THEN pc' = "panic" /\ re' = re
          ELSE /\ \E r \in {rollout(played)} :
                     re' = [re EXCEPT !.played = r.played, !.wins = r.wins]
               /\ pc' = "rolled"
    /\ UNCHANGED <<call, ret, TableVars, PlayVars, run>>

\* The rest of NewTrainedSampledEvaluator: the averaging and the conversion.
\* ret.opp is the opponent after the call; only e.wins is written.
TrainedReturn ==
    /\ pc = "rolled"
    /\ \E fresh \in {WinTables(re.played)}, ow \in {OppWins(call.opp)} :
       \E a \in {Averaged(fresh, ow)} :
          IF a.panic THEN pc' = "panic" /\ ret' = ret
          ELSE \E r \in {NewSampledEvaluatorFromRollout(re)} :
                  IF r.err # "nil" THEN pc' = "fatal" /\ ret' = ret
                  ELSE /\ pc' = "trained"
                       /\ ret' = [se |-> [kind |-> "sampled", wins |-> a.wins],
                                  opp |-> call.opp]
    /\ UNCHANGED <<call, re, TableVars, PlayVars, run>>

NextTrain == CallTrained \/ TrainedInit \/ TrainedReturn

SpecTrain == InitTrain /\ [][NextTrain]_vars

\* opp is a sampled scorer or a pre-rolled separable rollout scorer.
HasTables(opp) ==
    \/ opp.kind = "sampled"
    \/ opp.kind = "rollout" /\ opp.PreRollout /\ opp.Separable /\ opp.played # <<>>

\* Entry r of lane l of the returned scorer is the freshly rolled-out CDF.
IsFresh(l, r) ==
    LET w == ret.se.wins[l][r + 1]
    IN  IF re.N = 0 THEN w.nan
        ELSE ~w.nan /\ w.num * re.N = Won(re.played, l, r) * w.den

\* Entry r of lane l of the returned scorer is the average of the freshly
\* rolled-out CDF and the opponent's entry.
IsAverage(l, r) ==
    /\ r + 1 <= Len(call.opp.wins[l])
    /\ LET w == ret.se.wins[l][r + 1]
           p == call.opp.wins[l][r + 1]
       IN  IF re.N = 0 \/ p.nan THEN w.nan
           ELSE /\ ~w.nan
                /\ 2 * w.num * re.N * p.den
                      = (Won(re.played, l, r) * p.den + p.num * re.N) * w.den

\* C19: the scorer returned has, for every lane and every rank in
\* 0..ScoreMax, the average of the fresh CDF and the opponent's table when
\* the opponent is a sampled scorer or a pre-rolled separable rollout
\* scorer, and the fresh CDF otherwise; the opponent's tables are unchanged.
C19_TrainedTablesAreAverages ==
    pc = "trained" =>
       /\ \A l \in 1..3 :
             /\ Len(ret.se.wins[l]) = ScoreMax + 1
             /\ \A r \in 0..ScoreMax :
                   IF HasTables(call.opp) THEN IsAverage(l, r) ELSE IsFresh(l, r)
       /\ ret.opp = call.opp

\* The same for the opponents whose tables have ScoreMax + 1 entries each.
AveragesOfFullTables ==
    pc = "trained" /\ (HasTables(call.opp) =>
                          \A l \in 1..3 : Len(call.opp.wins[l]) = ScoreMax + 1)
       => C19_TrainedTablesAreAverages

===========================================================================
